---------------------------- MODULE Spec2Model ----------------------------
(***************************************************************************)
(* WebSocket framing over a custom streaming scheme                        *)
(* (prototypes/06-websocket-scheme/main.cpp).                              *)
(*                                                                         *)
(* The module models                                                       *)
(*   - the frame codec (WsFrame::encode / WsFrame::decode and the page's   *)
(*     encodeFrame / decodeFrame) over sequences of bytes,                 *)
(*   - FrameQueue with its mutex and condition variable, one step per      *)
(*     critical section or atomic access,                                  *)
(*   - the /connect handler, the binary_message handler and                *)
(*     websocket_server_thread in test mode and in interactive mode.       *)
(*                                                                         *)
(* Nine specifications are given:                                          *)
(*   QueueSpec    FrameQueue driven by producer threads, one consumer, a   *)
(*                thread calling close() and a thread calling reset();     *)
(*   TestSpec     the program started with --test: the host thread running *)
(*                the handlers, the session thread, any peer;              *)
(*   InteractiveSpec  the program started without --test;                  *)
(*   ScenarioSpec the program in test mode with the page of html_template  *)
(*                as the peer, under fair scheduling;                      *)
(*   CodecSpec    the codec applied to frames of every length tier, to     *)
(*                prefixes, to packed frames and to hostile length fields; *)
(*   TestFairSpec, InteractiveFairSpec  TestSpec and InteractiveSpec with  *)
(*                the session thread scheduled fairly and wait_for timing  *)
(*                out;                                                     *)
(*   OpcodeSpec   interactive mode with a peer sending frames of every     *)
(*                opcode;                                                  *)
(*   ProgramSpec  the program in either mode.                              *)
(***************************************************************************)
EXTENDS Naturals, Integers, Sequences, FiniteSets, TLC

\* ------------------------------------------------------------------ bounds
\* push calls in one behaviour of QueueSpec
MaxPush == 2
\* frames the peer gets pushed in one behaviour of InteractiveSpec
MaxDeliver == 2
\* frames the peer gets pushed in one behaviour of TestSpec
MaxDeliverTest == 3
\* /connect requests in one behaviour of interactive mode
MaxConnect == 2
\* reset() calls in one behaviour of QueueSpec
MaxReset == 1

\* ---------------------------------------------------------------- opcodes
CONTINUATION == 0
TEXT == 1
BINARY == 2
CLOSE == 8
PING == 9
PONG == 10

PING_COUNT == 3

\* ------------------------------------------------------------ bit helpers
\* bit k of the byte a
Bit(a, k) == (a \div (2 ^ k)) % 2

\* a & b, a | b and a ^ b on bytes
BitAnd(a, b) ==
    Bit(a, 0) * Bit(b, 0) + 2 * (Bit(a, 1) * Bit(b, 1)) + 4 * (Bit(a, 2) * Bit(b, 2))
    + 8 * (Bit(a, 3) * Bit(b, 3)) + 16 * (Bit(a, 4) * Bit(b, 4))
    + 32 * (Bit(a, 5) * Bit(b, 5)) + 64 * (Bit(a, 6) * Bit(b, 6))
    + 128 * (Bit(a, 7) * Bit(b, 7))

BitXor(a, b) == a + b - 2 * BitAnd(a, b)

BitOr(a, b) == a + b - BitAnd(a, b)

\* data[k] of the C++ and JavaScript code (0-based)
At(data, k) == data[k + 1]

\* ------------------------------------------------------------------ frames
\* struct WsFrame; fin defaults to true
WsFrame(fin, opcode, payload) == [fin |-> fin, opcode |-> opcode, payload |-> payload]

\* std::nullopt
nullopt == [kind |-> "nullopt"]

\* the 8 big-endian bytes of the length n, which is below 2^31 here:
\* (n >> (k * 8)) & 0xFF for k = 7..0
BigEndian8(n) ==
    <<0, 0, 0, 0, (n \div 16777216) % 256, (n \div 65536) % 256, (n \div 256) % 256,
      n % 256>>

\* mutant of encode: a payload of 126 bytes still gets the one-byte length
encodeInline126(frame) ==
    LET size  == Len(frame.payload)
        byte0 == BitOr(IF frame.fin THEN 128 ELSE 0, frame.opcode)
        len   == IF size <= 126 THEN <<size>>
                 ELSE IF size <= 65535
                      THEN <<126, BitAnd(size \div 256, 255), BitAnd(size, 255)>>
                      ELSE <<127>> \o BigEndian8(size)
    IN  <<byte0>> \o len \o frame.payload

\* WsFrame::encode
encode(frame) ==
    LET size  == Len(frame.payload)
        byte0 == BitOr(IF frame.fin THEN 128 ELSE 0, frame.opcode)
        len   == IF size <= 125 THEN <<size>>
                 ELSE IF size <= 65535
                      THEN <<126, BitAnd(size \div 256, 255), BitAnd(size, 255)>>
                      ELSE <<127>> \o BigEndian8(size)
    IN  <<byte0>> \o len \o frame.payload

\* (b[0] << 8) | b[1]
FromBigEndian2(b) == 256 * b[1] + b[2]

\* the value of three big-endian bytes
FromBigEndian3(b) == 65536 * b[1] + 256 * b[2] + b[3]

\* The 64-bit length field as the pair (hi, lo): lo is the value of its low
\* three bytes, hi the sequence of its high five bytes.
Length64(b) == [hi |-> SubSeq(b, 1, 5), lo |-> FromBigEndian3(SubSeq(b, 6, 8))]

AllBytes(b, v) == \A k \in 1..Len(b) : b[k] = v

\* size < offset + length in std::uint64_t arithmetic, for size and offset
\* below 2^24: the sum wraps to a small value exactly when the high bytes
\* are all 0xFF and the low part carries.
SizeBelowEnd(size, offset, length) ==
    LET low   == offset + length.lo
        carry == low >= 16777216
    IN  IF carry
        THEN IF AllBytes(length.hi, 255)
             THEN size < low - 16777216
             ELSE TRUE
        ELSE IF AllBytes(length.hi, 0)
             THEN size < low
             ELSE TRUE

\* mutant of Unmask: every byte is XOR-ed with the first byte of the key
UnmaskFirstKeyByte(data, offset, length, mask) ==
    [i \in 1..length |-> BitXor(At(data, offset + (i - 1)), mask[1])]

\* payload[i] = data[offset + i] ^ mask[i % 4], for i < length
Unmask(data, offset, length, mask) ==
    [i \in 1..length |-> BitXor(At(data, offset + (i - 1)), mask[((i - 1) % 4) + 1])]

\* mutant of DecodeResult: the count leaves out the header
DecodeResultPayloadOnly(frame, offset) ==
    [kind |-> "frame", frame |-> frame, consumed |-> Len(frame.payload)]

\* return std::make_pair(std::move(frame), offset)
DecodeResult(frame, offset) == [kind |-> "frame", frame |-> frame, consumed |-> offset]

\* WsFrame::decode: nullopt, or the frame and the bytes consumed; a length
\* that passes the size check with non-zero high bytes makes resize() throw.
decode(data) ==
    LET size == Len(data) IN
    IF size < 2 THEN nullopt
    ELSE
    LET fin     == BitAnd(At(data, 0), 128) # 0
        opcode  == BitAnd(At(data, 0), 15)
        masked  == BitAnd(At(data, 1), 128) # 0
        len7    == BitAnd(At(data, 1), 127)
        short2  == len7 = 126 /\ size < 2 + 2
        short8  == len7 = 127 /\ size < 2 + 8
    IN
    IF short2 \/ short8 THEN nullopt
    ELSE
    LET length  == IF len7 = 126
                   THEN [hi |-> <<0, 0, 0, 0, 0>>,
                         lo |-> FromBigEndian2(SubSeq(data, 3, 4))]
                   ELSE IF len7 = 127
                        THEN Length64(SubSeq(data, 3, 10))
                        ELSE [hi |-> <<0, 0, 0, 0, 0>>, lo |-> len7]
        offset1 == IF len7 = 126 THEN 4 ELSE IF len7 = 127 THEN 10 ELSE 2
    IN
    IF masked /\ size < offset1 + 4 THEN nullopt
    ELSE
    LET mask    == IF masked THEN SubSeq(data, offset1 + 1, offset1 + 4)
                   ELSE <<0, 0, 0, 0>>
        offset2 == IF masked THEN offset1 + 4 ELSE offset1
    IN
    IF SizeBelowEnd(size, offset2, length) THEN nullopt
    ELSE IF ~AllBytes(length.hi, 0) THEN [kind |-> "length_error"]
    ELSE DecodeResult(WsFrame(fin, opcode, Unmask(data, offset2, length.lo, mask)),
                      offset2 + length.lo)

\* encodeFrame of the page: FIN set, MASK set, payload XOR-ed with mask
encodeFrame(opcode, payload, mask) ==
    LET len == Len(payload)
        hdr == IF len <= 125 THEN <<BitOr(128, len)>>
               ELSE IF len <= 65535
                    THEN <<BitOr(128, 126), BitAnd(len \div 256, 255), BitAnd(len, 255)>>
                    ELSE <<BitOr(128, 127)>> \o BigEndian8(len)
    IN  <<BitOr(128, opcode)>> \o hdr \o mask
        \o [i \in 1..len |-> BitXor(payload[i], mask[((i - 1) % 4) + 1])]

\* decodeFrame of the page: null, or fin, opcode, payload and totalLength
decodeFrame(data) ==
    IF Len(data) < 2 THEN nullopt
    ELSE
    LET fin    == BitAnd(At(data, 0), 128) # 0
        opcode == BitAnd(At(data, 0), 15)
        masked == BitAnd(At(data, 1), 128) # 0
        len7   == BitAnd(At(data, 1), 127)
    IN
    IF (len7 = 126 /\ Len(data) < 4) \/ (len7 = 127 /\ Len(data) < 10) THEN nullopt
    ELSE
    LET len    == IF len7 = 126 THEN FromBigEndian2(SubSeq(data, 3, 4))
                  ELSE IF len7 = 127 THEN FromBigEndian3(SubSeq(data, 8, 10))
                  ELSE len7
        off1   == IF len7 = 126 THEN 4 ELSE IF len7 = 127 THEN 10 ELSE 2
        offset == IF masked THEN off1 + 4 ELSE off1
    IN
    IF Len(data) < offset + len THEN nullopt
    ELSE [kind        |-> "frame",
          frame       |-> WsFrame(fin, opcode, SubSeq(data, offset + 1, offset + len)),
          totalLength |-> offset + len]

\* ------------------------------------------------------------------- state
VARIABLES
    m_queue,            \* FrameQueue::m_queue
    m_closed,           \* FrameQueue::m_closed
    m_mutex,            \* the set of threads holding m_mutex across a step
    cv_waiters,         \* the threads blocked in m_cv
    wp,                 \* each consumer's position inside wait_pop
    response,           \* each consumer's last wait_pop result
    hpc,                \* position of the host thread and the QueueSpec threads
    pc,                 \* position of each session thread
    i,                  \* loop variable of the test-mode loop, per session
    g_running, g_connected, g_test_mode, g_test_result,
    g_pings_sent, g_pongs_received,
    written,            \* per session: the byte strings given to writer.write
    writer_valid,       \* per session: writer.valid()
    writer_finished,    \* per session: writer.finish() was called
    app_quit,           \* g_app->quit() was called
    exit_code,          \* what main returned, -1 while it runs
    connects,           \* /connect requests handled so far
    closedAt,           \* history: resets at the store of the last close(), or -1
    resets,             \* reset() calls so far
    pushLog,            \* history of QueueSpec: the frames appended, with resets then
    popLog,             \* history, per consumer: the frames wait_pop removed, each
                        \* with resets and m_closed as wait_pop read them
    rounds,             \* history, per session: the wait_pop result of each test round
    page,               \* the page: connected, buffer, the session whose response
                        \* body it reads, and the bytes it has read of it
    ipc,                \* the byte strings the page sent that are not yet delivered
    codec               \* CodecSpec: a frame, its bytes and what decode made of them

qvars == <<m_queue, m_closed, m_mutex, cv_waiters, wp, response>>
gvars == <<g_running, g_connected, g_test_mode, g_test_result,
           g_pings_sent, g_pongs_received>>
wvars == <<written, writer_valid, writer_finished>>
vars  == <<m_queue, m_closed, m_mutex, cv_waiters, wp, response, hpc, pc, i,
           g_running, g_connected, g_test_mode, g_test_result,
           g_pings_sent, g_pongs_received, written, writer_valid,
           writer_finished, app_quit, exit_code, connects, closedAt, resets,
           pushLog, popLog, rounds, page, ipc, codec>>

\* ----------------------------------------------------------------- threads
\* session threads started by /connect, numbered in the order of the requests
Sessions == 1..MaxConnect
\* the consumer thread of QueueSpec
QueueConsumer == 0
Consumers == {QueueConsumer} \cup Sessions
\* the host (event) thread, and the threads of QueueSpec
HostThreads == {"ui", "p1", "p2", "closer", "resetter"}
Producers == {"p1", "p2"}

\* ------------------------------------------------------------- FrameQueue
\* the predicate given to m_cv.wait_for
WaitPred == m_queue # <<>> \/ m_closed

\* std::lock_guard / std::unique_lock can take m_mutex
MutexFree == m_mutex = {}

\* FrameQueue::push, the critical section: m_queue.push_back(frame)
PushLocked(t, frame) ==
    /\ hpc[t] = "idle"
    /\ MutexFree
    /\ m_queue' = Append(m_queue, frame)
    /\ hpc' = [hpc EXCEPT ![t] = "notify"]

\* mutant of NotifyOne: the notification is never delivered
NotifyNobody == UNCHANGED <<cv_waiters, wp>>

\* m_cv.notify_one(): wakes one blocked thread, if any
NotifyOne ==
    \/ /\ cv_waiters = {}
       /\ UNCHANGED <<cv_waiters, wp>>
    \/ \E w \in cv_waiters :
          /\ cv_waiters' = cv_waiters \ {w}
          /\ wp' = [wp EXCEPT ![w] = "woken"]

\* FrameQueue::push, after the critical section: m_cv.notify_one()
PushNotify(t) ==
    /\ hpc[t] = "notify"
    /\ NotifyOne
    /\ hpc' = [hpc EXCEPT ![t] = "idle"]

\* m_cv.notify_all(): wakes every blocked thread
NotifyAll ==
    /\ cv_waiters' = {}
    /\ wp' = [w \in Consumers |-> IF w \in cv_waiters THEN "woken" ELSE wp[w]]

\* mutant of CloseStore: close() also clears the pending frames
CloseStoreClears(t) ==
    /\ hpc[t] = "idle"
    /\ m_closed' = TRUE
    /\ closedAt' = resets
    /\ hpc' = [hpc EXCEPT ![t] = "notify_all"]
    /\ m_queue' = <<>>

\* FrameQueue::close, first statement: m_closed = true (no lock taken)
CloseStore(t) ==
    /\ hpc[t] = "idle"
    /\ m_closed' = TRUE
    /\ closedAt' = resets
    /\ hpc' = [hpc EXCEPT ![t] = "notify_all"]
    /\ UNCHANGED m_queue

\* FrameQueue::close, second statement: m_cv.notify_all()
CloseNotify(t) ==
    /\ hpc[t] = "notify_all"
    /\ NotifyAll
    /\ hpc' = [hpc EXCEPT ![t] = "idle"]

\* mutant of ResetLocked: reset() clears the closed flag only
ResetKeepsQueue ==
    /\ MutexFree
    /\ m_queue' = m_queue
    /\ m_closed' = FALSE
    /\ resets' = resets + 1

\* FrameQueue::reset: under the lock, clear the queue and the closed flag
ResetLocked ==
    /\ MutexFree
    /\ m_queue' = <<>>
    /\ m_closed' = FALSE
    /\ resets' = resets + 1

\* mutant of TakeFront: wait_pop takes the newest frame instead of the oldest
TakeBack(t) ==
    IF m_queue = <<>>
    THEN /\ response' = [response EXCEPT ![t] = nullopt]
         /\ UNCHANGED <<m_queue, popLog>>
    ELSE /\ response' = [response EXCEPT ![t] =
                            [kind |-> "frame", frame |-> m_queue[Len(m_queue)]]]
         /\ m_queue' = SubSeq(m_queue, 1, Len(m_queue) - 1)
         /\ popLog' = [popLog EXCEPT ![t] =
                          Append(@, [frame |-> m_queue[Len(m_queue)], epoch |-> resets,
                                     closed |-> m_closed])]

\* wait_pop lines 184-190 under the lock: nullopt on an empty queue, else
\* the front frame, which is removed
TakeFront(t) ==
    IF m_queue = <<>>
    THEN /\ response' = [response EXCEPT ![t] = nullopt]
         /\ UNCHANGED <<m_queue, popLog>>
    ELSE /\ response' = [response EXCEPT ![t] = [kind |-> "frame", frame |-> Head(m_queue)]]
         /\ m_queue' = Tail(m_queue)
         /\ popLog' = [popLog EXCEPT ![t] =
                          Append(@, [frame |-> Head(m_queue), epoch |-> resets,
                                     closed |-> m_closed])]

\* wait_pop: lock, evaluate the predicate; return if it holds, else stay in
\* wait_for with the mutex held
WaitPopEnter(t) ==
    /\ wp[t] = "enter"
    /\ MutexFree
    /\ IF WaitPred
       THEN /\ TakeFront(t)
            /\ wp' = [wp EXCEPT ![t] = "ret"]
            /\ UNCHANGED m_mutex
       ELSE /\ m_mutex' = {t}
            /\ wp' = [wp EXCEPT ![t] = "wait_for"]
            /\ UNCHANGED <<m_queue, response, popLog>>
    /\ UNCHANGED <<m_closed, cv_waiters>>

\* m_cv.wait_for blocks: releases the mutex and joins the waiters, atomically
WaitPopBlock(t) ==
    /\ wp[t] = "wait_for"
    /\ m_mutex' = m_mutex \ {t}
    /\ cv_waiters' = cv_waiters \cup {t}
    /\ wp' = [wp EXCEPT ![t] = "blocked"]
    /\ UNCHANGED <<m_queue, m_closed, response, popLog>>

\* mutant of WaitPopTimeout: wait_for has no timeout
WaitPopNoTimeout(t) ==
    /\ wp[t] = "never"
    /\ UNCHANGED <<qvars, popLog>>

\* the timeout of wait_for elapses while the thread is blocked
WaitPopTimeout(t) ==
    /\ wp[t] = "blocked"
    /\ cv_waiters' = cv_waiters \ {t}
    /\ wp' = [wp EXCEPT ![t] = "timeout"]
    /\ UNCHANGED <<m_queue, m_closed, m_mutex, response, popLog>>

\* a spurious wakeup of the blocked thread
WaitPopSpurious(t) ==
    /\ wp[t] = "blocked"
    /\ cv_waiters' = cv_waiters \ {t}
    /\ wp' = [wp EXCEPT ![t] = "woken"]
    /\ UNCHANGED <<m_queue, m_closed, m_mutex, response, popLog>>

\* woken before the timeout: lock again and evaluate the predicate again
WaitPopWoken(t) ==
    /\ wp[t] = "woken"
    /\ MutexFree
    /\ IF WaitPred
       THEN /\ TakeFront(t)
            /\ wp' = [wp EXCEPT ![t] = "ret"]
            /\ UNCHANGED m_mutex
       ELSE /\ m_mutex' = {t}
            /\ wp' = [wp EXCEPT ![t] = "wait_for"]
            /\ UNCHANGED <<m_queue, response, popLog>>
    /\ UNCHANGED <<m_closed, cv_waiters>>

\* woken by the timeout: lock again; wait_for returns the predicate, and
\* wait_pop returns nullopt (line 182) when it is false
WaitPopTimedOut(t) ==
    /\ wp[t] = "timeout"
    /\ MutexFree
    /\ IF WaitPred
       THEN TakeFront(t)
       ELSE /\ response' = [response EXCEPT ![t] = nullopt]
            /\ UNCHANGED <<m_queue, popLog>>
    /\ wp' = [wp EXCEPT ![t] = "ret"]
    /\ UNCHANGED <<m_closed, m_mutex, cv_waiters>>

\* the steps of a wait_pop call in progress
WaitPopStep(t) ==
    \/ WaitPopEnter(t)
    \/ WaitPopBlock(t)
    \/ WaitPopTimeout(t)
    \/ WaitPopSpurious(t)
    \/ WaitPopWoken(t)
    \/ WaitPopTimedOut(t)

\* --------------------------------------------------------------- QueueSpec
\* the frames the producer threads push
QueueFrames == {WsFrame(TRUE, TEXT, <<104>>), WsFrame(TRUE, PONG, <<>>)}

progvars == <<pc, i, g_running, g_connected, g_test_mode, g_test_result,
              g_pings_sent, g_pongs_received, written, writer_valid,
              writer_finished, app_quit, exit_code, connects, rounds, page, ipc, codec>>

InitCommon ==
    /\ m_queue = <<>>
    /\ m_closed = FALSE
    /\ m_mutex = {}
    /\ cv_waiters = {}
    /\ wp = [t \in Consumers |-> "out"]
    /\ response = [t \in Consumers |-> nullopt]
    /\ hpc = [t \in HostThreads |-> "idle"]
    /\ pc = [s \in Sessions |-> "unborn"]
    /\ i = [s \in Sessions |-> 0]
    /\ g_running = FALSE
    /\ g_connected = FALSE
    /\ g_test_result = 1
    /\ g_pings_sent = 0
    /\ g_pongs_received = 0
    /\ written = [s \in Sessions |-> <<>>]
    /\ writer_valid = [s \in Sessions |-> TRUE]
    /\ writer_finished = [s \in Sessions |-> FALSE]
    /\ app_quit = FALSE
    /\ exit_code = -1
    /\ connects = 0
    /\ closedAt = -1
    /\ resets = 0
    /\ pushLog = <<>>
    /\ popLog = [t \in Consumers |-> <<>>]
    /\ rounds = [s \in Sessions |-> <<>>]
    /\ page = [connected |-> FALSE, buffer |-> <<>>, session |-> 0, read |-> 0]
    /\ ipc = <<>>

\* the codec harness is not used
CodecIdle == codec = [stage |-> "idle"]

QueueInit == InitCommon /\ CodecIdle /\ g_test_mode = FALSE

\* a producer thread calls push(frame)
QPush ==
    \E t \in Producers, frame \in QueueFrames :
        /\ Len(pushLog) < MaxPush
        /\ PushLocked(t, frame)
        /\ pushLog' = Append(pushLog, [frame |-> frame, epoch |-> resets])
        /\ UNCHANGED <<m_closed, m_mutex, cv_waiters, wp, response, closedAt, resets,
                       popLog, progvars>>

QPushNotify ==
    \E t \in Producers :
        /\ PushNotify(t)
        /\ UNCHANGED <<m_queue, m_closed, m_mutex, response, closedAt, resets,
                       pushLog, popLog, progvars>>

\* the closing thread calls close()
QClose ==
    /\ CloseStore("closer")
    /\ UNCHANGED <<m_mutex, cv_waiters, wp, response, resets,
                   pushLog, popLog, progvars>>

QCloseNotify ==
    /\ CloseNotify("closer")
    /\ UNCHANGED <<m_queue, m_closed, m_mutex, response, closedAt, resets,
                   pushLog, popLog, progvars>>

\* the resetting thread calls reset()
QReset ==
    /\ hpc["resetter"] = "idle"
    /\ resets < MaxReset
    /\ ResetLocked
    /\ UNCHANGED <<m_mutex, cv_waiters, wp, response, hpc, closedAt,
                   pushLog, popLog, progvars>>

\* the consumer thread calls wait_pop, again after each return
QWaitPopCall ==
    /\ wp[QueueConsumer] \in {"out", "ret"}
    /\ wp' = [wp EXCEPT ![QueueConsumer] = "enter"]
    /\ UNCHANGED <<m_queue, m_closed, m_mutex, cv_waiters, response, hpc, closedAt,
                   resets, pushLog, popLog, progvars>>

QWaitPopStep ==
    /\ WaitPopStep(QueueConsumer)
    /\ UNCHANGED <<hpc, closedAt, resets, pushLog, progvars>>

QueueNext ==
    \/ QPush
    \/ QPushNotify
    \/ QClose
    \/ QCloseNotify
    \/ QReset
    \/ QWaitPopCall
    \/ QWaitPopStep

QueueSpec == QueueInit /\ [][QueueNext]_vars

\* ------------------------------------------------------ claims on FrameQueue
\* the frames of a history
Frames(log) == [k \in 1..Len(log) |-> log[k].frame]

\* the frames pushed while resets = e, in the order they were appended
PushesOf(e) == Frames(SelectSeq(pushLog, LAMBDA x : x.epoch = e))

\* the frames wait_pop removed while resets = e, in the order of removal
PopsOf(e) == Frames(SelectSeq(popLog[QueueConsumer], LAMBDA x : x.epoch = e))

IsPrefix(a, b) == Len(a) <= Len(b) /\ SubSeq(b, 1, Len(a)) = a

\* C1: with no reset, the frames wait_pop has returned, followed by the frames
\* still pending, are exactly the frames pushed, in the order their push
\* calls appended them: nothing is dropped, duplicated or reordered.
C1_FifoLossless ==
    resets = 0 => Frames(popLog[QueueConsumer]) \o m_queue = Frames(pushLog)

\* C1 witness: two different frames were pushed and both were returned
C1_Witness ==
    /\ resets = 0
    /\ Len(popLog[QueueConsumer]) = 2
    /\ popLog[QueueConsumer][1].frame # popLog[QueueConsumer][2].frame
    /\ m_queue = <<>>

\* C2: the consumer is never left blocked on the condition variable with a
\* frame pending unless a producer is about to call notify_one.
C2_NoLostWakeupPush ==
    (wp[QueueConsumer] = "blocked" /\ m_queue # <<>>)
        => \E t \in Producers : hpc[t] = "notify"

\* C2 witness: a push has appended a frame while the consumer is blocked
C2_Witness ==
    /\ wp[QueueConsumer] = "blocked"
    /\ m_queue # <<>>
    /\ \E t \in Producers : hpc[t] = "notify"

\* C3 (as claimed): the consumer is never left blocked on the condition
\* variable of a closed queue unless close() is about to call notify_all.
C3_NoLostWakeupClose ==
    (wp[QueueConsumer] = "blocked" /\ m_closed)
        => hpc["closer"] = "notify_all"

\* C4: the frames removed since the last reset, followed by the pending
\* frames, are exactly the frames pushed since that reset (so the queue is
\* empty right after it and no earlier frame is returned later); before each
\* reset the frames removed were a prefix of the frames pushed; and the
\* closed flag is set only by a close() that stored after the last reset.
C4_ResetDiscards ==
    /\ PopsOf(resets) \o m_queue = PushesOf(resets)
    /\ \A e \in 0..resets : IsPrefix(PopsOf(e), PushesOf(e))
    /\ m_closed => closedAt = resets

\* C4 witness: a reset discarded a pending frame of a closed queue, and a
\* frame pushed after it was returned
C4_Witness ==
    /\ resets = 1
    /\ Len(PushesOf(0)) > Len(PopsOf(0))
    /\ closedAt = 0
    /\ ~m_closed
    /\ Len(PopsOf(1)) = 1

\* C5: close() leaves the queue contents alone, and a wait_pop call returns
\* nullopt exactly when the queue is empty as it decides, and otherwise
\* returns the front frame and removes exactly that frame.
C5_CloseKeepsFrames ==
    [][ /\ ((hpc["closer"] = "idle" /\ hpc'["closer"] = "notify_all") => m_queue' = m_queue)
        /\ \A t \in Consumers :
              (wp[t] # "ret" /\ wp'[t] = "ret") =>
                  IF m_queue = <<>>
                  THEN response'[t] = nullopt /\ m_queue' = m_queue
                  ELSE /\ response'[t] = [kind |-> "frame", frame |-> Head(m_queue)]
                       /\ m_queue' = Tail(m_queue)
      ]_vars

\* C5 witness: a frame pending at close() was returned after the close, and
\* the next call on the closed, empty queue returned nullopt
C5_Witness ==
    /\ m_closed
    /\ m_queue = <<>>
    /\ \E k \in 1..Len(popLog[QueueConsumer]) : popLog[QueueConsumer][k].closed
    /\ wp[QueueConsumer] = "ret"
    /\ response[QueueConsumer] = nullopt

\* ------------------------------------------------------------- the program
\* the decimal digits of n < 100, as std::format("{}", n) writes them
Decimal(n) == IF n < 10 THEN <<48 + n>> ELSE <<48 + (n \div 10), 48 + (n % 10)>>

\* std::format("ping-{}", i)
PingData(n) == <<112, 105, 110, 103, 45>> \o Decimal(n)

\* WsFrame ping{.opcode = PING, .payload = ping_data}; fin keeps its default
PingFrame(n) == WsFrame(TRUE, PING, PingData(n))

\* WsFrame close_frame{.opcode = CLOSE, .payload = {0x03, 0xE8}}
CloseFrame == WsFrame(TRUE, CLOSE, <<3, 232>>)

\* masking keys the page may draw (crypto.getRandomValues)
Masks == {<<0, 0, 0, 0>>, <<165, 90, 255, 1>>}

\* what one inbound delivery may carry in test mode: the PONG answers of
\* the page, a PONG with another payload, a frame that is no PONG, and a
\* truncated frame
TestUnits ==
    {encodeFrame(PONG, PingData(n), <<165, 90, 255, 1>>) : n \in 0..(PING_COUNT - 1)}
    \cup {encodeFrame(PONG, <<119>>, <<165, 90, 255, 1>>),
          encodeFrame(TEXT, <<104, 105>>, <<0, 0, 0, 0>>),
          <<129>>}

\* what one inbound delivery may carry in interactive mode: a masked TEXT
\* frame, an unmasked BINARY frame without FIN, a PONG, a CLOSE, and a
\* truncated frame
InteractiveUnits ==
    {encodeFrame(TEXT, <<104, 105>>, <<165, 90, 255, 1>>),
     encode(WsFrame(FALSE, BINARY, <<0>>)),
     encodeFrame(PONG, <<>>, <<0, 0, 0, 0>>),
     encodeFrame(CLOSE, <<3, 232>>, <<165, 90, 255, 1>>),
     <<129>>}

DeliveryUnits == IF g_test_mode THEN TestUnits ELSE InteractiveUnits

\* frames the peer gets pushed in one behaviour
DeliverLimit == IF g_test_mode THEN MaxDeliverTest ELSE MaxDeliver

hist == <<closedAt, resets, pushLog, popLog>>

\* /connect requests the page issues: one in test mode (the auto-connect)
ConnectLimit == IF g_test_mode THEN 1 ELSE MaxConnect

\* handle_stream_scheme("wsock"), path /connect: g_running = true
Connect ==
    /\ hpc["ui"] = "idle"
    /\ exit_code = -1
    /\ connects < ConnectLimit
    /\ connects' = connects + 1
    /\ g_running' = TRUE
    /\ hpc' = [hpc EXCEPT !["ui"] = "c_reset"]
    /\ UNCHANGED <<qvars, hist, pc, i, rounds, g_connected, g_test_mode, g_test_result,
                   g_pings_sent, g_pongs_received, wvars, app_quit, exit_code,
                   page, ipc, codec>>

\* /connect: g_from_client.reset()
ConnectReset ==
    /\ hpc["ui"] = "c_reset"
    /\ ResetLocked
    /\ hpc' = [hpc EXCEPT !["ui"] = "c_spawn"]
    /\ UNCHANGED <<m_mutex, cv_waiters, wp, response, closedAt, pushLog, popLog,
                   pc, i, rounds, gvars, wvars, app_quit, exit_code, connects,
                   page, ipc, codec>>

\* /connect: the counters are zeroed and the session thread is started
ConnectSpawn ==
    /\ hpc["ui"] = "c_spawn"
    /\ g_pings_sent' = 0
    /\ g_pongs_received' = 0
    /\ pc' = [pc EXCEPT ![connects] = "start"]
    /\ hpc' = [hpc EXCEPT !["ui"] = "idle"]
    /\ UNCHANGED <<qvars, hist, i, rounds, g_running, g_connected, g_test_mode,
                   g_test_result, wvars, app_quit, exit_code, connects, page, ipc, codec>>

\* the binary_message handler on data: decode once, push the frame if any
BinaryMessage(data) ==
    /\ hpc["ui"] = "idle"
    /\ exit_code = -1
    /\ LET result == decode(data) IN
       IF result.kind = "frame"
       THEN /\ PushLocked("ui", result.frame)
            /\ UNCHANGED <<m_closed, m_mutex, cv_waiters, wp, response>>
       ELSE UNCHANGED <<qvars, hpc>>
    /\ UNCHANGED <<hist, pc, i, rounds, gvars, wvars, app_quit,
                   exit_code, connects>>

\* the frames pending in the queue or removed from it by a session
Delivered ==
    LET RECURSIVE Sum(_)
        Sum(n) == IF n = 0 THEN 0 ELSE Len(popLog[n]) + Sum(n - 1)
    IN  Len(m_queue) + Sum(MaxConnect)

\* a delivery from a peer that may send anything
Deliver ==
    /\ hpc["ui"] = "idle"
    /\ exit_code = -1
    /\ Delivered < DeliverLimit
    /\ \E data \in DeliveryUnits : BinaryMessage(data)
    /\ UNCHANGED <<page, ipc, codec>>

\* the binary_message handler, inside push after the lock: notify_one
DeliverNotify ==
    /\ hpc["ui"] = "notify"
    /\ PushNotify("ui")
    /\ UNCHANGED <<m_queue, m_closed, m_mutex, response, hist, pc, i, rounds, gvars,
                   wvars, app_quit, exit_code, connects, page, ipc, codec>>

\* main after application::run returns
MainReturn ==
    /\ app_quit
    /\ exit_code = -1
    /\ exit_code' = IF g_test_mode THEN g_test_result ELSE 0
    /\ UNCHANGED <<qvars, hist, hpc, pc, i, rounds, gvars, wvars, app_quit, connects,
                   page, ipc, codec>>

\* the transport makes the writer unusable (the peer cancelled the stream)
WriterInvalidate(s) ==
    /\ pc[s] \notin {"unborn", "done"}
    /\ writer_valid[s]
    /\ writer_valid' = [writer_valid EXCEPT ![s] = FALSE]
    /\ UNCHANGED <<qvars, hist, hpc, pc, i, rounds, gvars, written, writer_finished,
                   app_quit, exit_code, connects, page, ipc, codec>>

\* writer.write(bytes)
Write(s, bytes) == written' = [written EXCEPT ![s] = Append(@, bytes)]

\* websocket_server_thread: writer.start, g_connected = true, mode branch
Start(s) ==
    /\ pc[s] = "start"
    /\ g_connected' = TRUE
    /\ i' = [i EXCEPT ![s] = 0]
    /\ pc' = [pc EXCEPT ![s] = IF g_test_mode THEN "t_loop" ELSE "i_loop"]
    /\ UNCHANGED <<qvars, hist, hpc, rounds, g_running, g_test_mode, g_test_result,
                   g_pings_sent, g_pongs_received, wvars, app_quit, exit_code,
                   connects, page, ipc, codec>>

\* mutant of TestLoop: the loop condition does not ask writer.valid()
TestLoopIgnoresWriter(s) ==
    /\ pc[s] = "t_loop"
    /\ IF i[s] < PING_COUNT /\ g_running
       THEN /\ Write(s, encode(PingFrame(i[s])))
            /\ g_pings_sent' = g_pings_sent + 1
            /\ wp' = [wp EXCEPT ![s] = "enter"]
            /\ pc' = [pc EXCEPT ![s] = "t_wait"]
       ELSE /\ pc' = [pc EXCEPT ![s] = "t_close"]
            /\ UNCHANGED <<written, g_pings_sent, wp>>
    /\ UNCHANGED <<m_queue, m_closed, m_mutex, cv_waiters, response, hist, hpc, i,
                   rounds, g_running, g_connected, g_test_mode, g_test_result,
                   g_pongs_received, writer_valid, writer_finished, app_quit,
                   exit_code, connects, page, ipc, codec>>

\* test mode, loop head and first half of the body: send PING, call wait_pop
TestLoop(s) ==
    /\ pc[s] = "t_loop"
    /\ IF i[s] < PING_COUNT /\ g_running /\ writer_valid[s]
       THEN /\ Write(s, encode(PingFrame(i[s])))
            /\ g_pings_sent' = g_pings_sent + 1
            /\ wp' = [wp EXCEPT ![s] = "enter"]
            /\ pc' = [pc EXCEPT ![s] = "t_wait"]
       ELSE /\ pc' = [pc EXCEPT ![s] = "t_close"]
            /\ UNCHANGED <<written, g_pings_sent, wp>>
    /\ UNCHANGED <<m_queue, m_closed, m_mutex, cv_waiters, response, hist, hpc, i,
                   rounds, g_running, g_connected, g_test_mode, g_test_result,
                   g_pongs_received, writer_valid, writer_finished, app_quit,
                   exit_code, connects, page, ipc, codec>>

\* mutant of RoundPasses: the payload of the PONG is not compared
RoundPassesAnyTag(resp, n) ==
    /\ resp.kind = "frame"
    /\ resp.frame.opcode = PONG

\* the response of a round passes: a PONG whose payload is the tag sent
RoundPasses(resp, n) ==
    /\ resp.kind = "frame"
    /\ resp.frame.opcode = PONG
    /\ resp.frame.payload = PingData(n)

\* mutant of FailRound: a failed round is tried again
FailRoundRetry(s) ==
    /\ g_test_result' = 1
    /\ pc' = [pc EXCEPT ![s] = "t_loop"]
    /\ UNCHANGED <<g_pongs_received, i>>

\* test mode, a round that failed: g_test_result = 1; break
FailRound(s) ==
    /\ g_test_result' = 1
    /\ pc' = [pc EXCEPT ![s] = "t_close"]
    /\ UNCHANGED <<g_pongs_received, i>>

\* mutant of TestVerify: a round that passed is not counted
TestVerifyForgetsCount(s) ==
    /\ pc[s] = "t_wait"
    /\ wp[s] = "ret"
    /\ wp' = [wp EXCEPT ![s] = "out"]
    /\ rounds' = [rounds EXCEPT ![s] = Append(@, response[s])]
    /\ response' = [response EXCEPT ![s] = nullopt]
    /\ IF RoundPasses(response[s], i[s])
       THEN /\ g_pongs_received' = g_pongs_received
            /\ g_test_result' = IF i[s] = PING_COUNT - 1 THEN 0 ELSE g_test_result
            /\ i' = [i EXCEPT ![s] = @ + 1]
            /\ pc' = [pc EXCEPT ![s] = "t_loop"]
       ELSE FailRound(s)
    /\ UNCHANGED <<m_queue, m_closed, m_mutex, cv_waiters, hist, hpc,
                   g_running, g_connected, g_test_mode, g_pings_sent, wvars,
                   app_quit, exit_code, connects, page, ipc, codec>>

\* test mode, second half of the body: check the response of wait_pop
TestVerify(s) ==
    /\ pc[s] = "t_wait"
    /\ wp[s] = "ret"
    /\ wp' = [wp EXCEPT ![s] = "out"]
    /\ rounds' = [rounds EXCEPT ![s] = Append(@, response[s])]
    /\ response' = [response EXCEPT ![s] = nullopt]
    /\ IF RoundPasses(response[s], i[s])
       THEN /\ g_pongs_received' = g_pongs_received + 1
            /\ g_test_result' = IF i[s] = PING_COUNT - 1 THEN 0 ELSE g_test_result
            /\ i' = [i EXCEPT ![s] = @ + 1]
            /\ pc' = [pc EXCEPT ![s] = "t_loop"]
       ELSE FailRound(s)
    /\ UNCHANGED <<m_queue, m_closed, m_mutex, cv_waiters, hist, hpc,
                   g_running, g_connected, g_test_mode, g_pings_sent, wvars,
                   app_quit, exit_code, connects, page, ipc, codec>>

\* mutant of TestClose: the session stops without a CLOSE frame
TestCloseSilent(s) ==
    /\ pc[s] = "t_close"
    /\ pc' = [pc EXCEPT ![s] = "t_stop"]
    /\ UNCHANGED <<qvars, hist, hpc, i, rounds, gvars, wvars,
                   app_quit, exit_code, connects, page, ipc, codec>>

\* test mode: send the CLOSE frame
TestClose(s) ==
    /\ pc[s] = "t_close"
    /\ Write(s, encode(CloseFrame))
    /\ pc' = [pc EXCEPT ![s] = "t_stop"]
    /\ UNCHANGED <<qvars, hist, hpc, i, rounds, gvars, writer_valid, writer_finished,
                   app_quit, exit_code, connects, page, ipc, codec>>

\* test mode: after the sleep, g_running = false
TestStop(s) ==
    /\ pc[s] = "t_stop"
    /\ g_running' = FALSE
    /\ pc' = [pc EXCEPT ![s] = "t_finish"]
    /\ UNCHANGED <<qvars, hist, hpc, i, rounds, g_connected, g_test_mode, g_test_result,
                   g_pings_sent, g_pongs_received, wvars, app_quit, exit_code,
                   connects, page, ipc, codec>>

\* mutant of TestFinish: the CLOSE frame is written once more before finish
TestFinishWritesClose(s) ==
    /\ pc[s] = "t_finish"
    /\ Write(s, encode(CloseFrame))
    /\ writer_finished' = [writer_finished EXCEPT ![s] = TRUE]
    /\ pc' = [pc EXCEPT ![s] = "t_quit"]
    /\ UNCHANGED <<qvars, hist, hpc, i, rounds, gvars, writer_valid,
                   app_quit, exit_code, connects, page, ipc, codec>>

\* test mode: writer.finish()
TestFinish(s) ==
    /\ pc[s] = "t_finish"
    /\ writer_finished' = [writer_finished EXCEPT ![s] = TRUE]
    /\ pc' = [pc EXCEPT ![s] = "t_quit"]
    /\ UNCHANGED <<qvars, hist, hpc, i, rounds, gvars, written, writer_valid,
                   app_quit, exit_code, connects, page, ipc, codec>>

\* test mode: g_app->quit() and return
TestQuit(s) ==
    /\ pc[s] = "t_quit"
    /\ app_quit' = TRUE
    /\ pc' = [pc EXCEPT ![s] = "done"]
    /\ UNCHANGED <<qvars, hist, hpc, i, rounds, gvars, wvars, exit_code, connects,
                   page, ipc, codec>>

\* mutant of InteractiveLoop: the loop head does not look at the flags
InteractiveLoopForever(s) ==
    /\ pc[s] = "i_loop"
    /\ wp' = [wp EXCEPT ![s] = "enter"]
    /\ pc' = [pc EXCEPT ![s] = "i_wait"]
    /\ UNCHANGED <<m_queue, m_closed, m_mutex, cv_waiters, response, hist, hpc, i,
                   rounds, gvars, wvars, app_quit, exit_code, connects, page, ipc, codec>>

\* interactive mode, loop head: call wait_pop while running and valid
InteractiveLoop(s) ==
    /\ pc[s] = "i_loop"
    /\ IF g_running /\ writer_valid[s]
       THEN /\ wp' = [wp EXCEPT ![s] = "enter"]
            /\ pc' = [pc EXCEPT ![s] = "i_wait"]
       ELSE /\ pc' = [pc EXCEPT ![s] = "i_close"]
            /\ UNCHANGED wp
    /\ UNCHANGED <<m_queue, m_closed, m_mutex, cv_waiters, response, hist, hpc, i,
                   rounds, gvars, wvars, app_quit, exit_code, connects, page, ipc, codec>>

\* mutant of Echo: the echoed frame always has FIN set
EchoFinal(s, frame) == Write(s, encode(WsFrame(TRUE, frame.opcode, frame.payload)))

\* interactive mode, the echo: writer.write(frame->encode())
Echo(s, frame) == Write(s, encode(frame))

\* mutant of InteractiveHandle: a PING is answered by a PONG with its payload
InteractiveHandlePingReply(s) ==
    /\ pc[s] = "i_wait"
    /\ wp[s] = "ret"
    /\ wp' = [wp EXCEPT ![s] = "out"]
    /\ response' = [response EXCEPT ![s] = nullopt]
    /\ LET frame == response[s] IN
       IF frame.kind = "frame" /\ frame.frame.opcode \in {TEXT, BINARY}
       THEN /\ Echo(s, frame.frame)
            /\ pc' = [pc EXCEPT ![s] = "i_loop"]
            /\ UNCHANGED g_pongs_received
       ELSE IF frame.kind = "frame" /\ frame.frame.opcode = PING
       THEN /\ Write(s, encode(WsFrame(TRUE, PONG, frame.frame.payload)))
            /\ pc' = [pc EXCEPT ![s] = "i_loop"]
            /\ UNCHANGED g_pongs_received
       ELSE IF frame.kind = "frame" /\ frame.frame.opcode = PONG
       THEN /\ g_pongs_received' = g_pongs_received + 1
            /\ pc' = [pc EXCEPT ![s] = "i_loop"]
            /\ UNCHANGED written
       ELSE IF frame.kind = "frame" /\ frame.frame.opcode = CLOSE
       THEN /\ pc' = [pc EXCEPT ![s] = "i_close"]
            /\ UNCHANGED <<written, g_pongs_received>>
       ELSE /\ pc' = [pc EXCEPT ![s] = "i_loop"]
            /\ UNCHANGED <<written, g_pongs_received>>
    /\ UNCHANGED <<m_queue, m_closed, m_mutex, cv_waiters, hist, hpc, i,
                   rounds, g_running, g_connected, g_test_mode, g_test_result,
                   g_pings_sent, writer_valid, writer_finished, app_quit, exit_code,
                   connects, page, ipc, codec>>

\* interactive mode, loop body: react to the result of wait_pop
InteractiveHandle(s) ==
    /\ pc[s] = "i_wait"
    /\ wp[s] = "ret"
    /\ wp' = [wp EXCEPT ![s] = "out"]
    /\ response' = [response EXCEPT ![s] = nullopt]
    /\ LET frame == response[s] IN
       IF frame.kind = "frame" /\ frame.frame.opcode \in {TEXT, BINARY}
       THEN /\ Echo(s, frame.frame)
            /\ pc' = [pc EXCEPT ![s] = "i_loop"]
            /\ UNCHANGED g_pongs_received
       ELSE IF frame.kind = "frame" /\ frame.frame.opcode = PONG
       THEN /\ g_pongs_received' = g_pongs_received + 1
            /\ pc' = [pc EXCEPT ![s] = "i_loop"]
            /\ UNCHANGED written
       ELSE IF frame.kind = "frame" /\ frame.frame.opcode = CLOSE
       THEN /\ pc' = [pc EXCEPT ![s] = "i_close"]
            /\ UNCHANGED <<written, g_pongs_received>>
       ELSE /\ pc' = [pc EXCEPT ![s] = "i_loop"]
            /\ UNCHANGED <<written, g_pongs_received>>
    /\ UNCHANGED <<m_queue, m_closed, m_mutex, cv_waiters, hist, hpc, i,
                   rounds, g_running, g_connected, g_test_mode, g_test_result,
                   g_pings_sent, writer_valid, writer_finished, app_quit, exit_code,
                   connects, page, ipc, codec>>

\* mutant of InteractiveClose: the session ends without a CLOSE frame
InteractiveCloseSilent(s) ==
    /\ pc[s] = "i_close"
    /\ pc' = [pc EXCEPT ![s] = "i_finish"]
    /\ UNCHANGED <<qvars, hist, hpc, i, rounds, gvars, wvars,
                   app_quit, exit_code, connects, page, ipc, codec>>

\* interactive mode, after the loop: send the CLOSE frame
InteractiveClose(s) ==
    /\ pc[s] = "i_close"
    /\ Write(s, encode(CloseFrame))
    /\ pc' = [pc EXCEPT ![s] = "i_finish"]
    /\ UNCHANGED <<qvars, hist, hpc, i, rounds, gvars, writer_valid, writer_finished,
                   app_quit, exit_code, connects, page, ipc, codec>>

\* interactive mode: writer.finish()
InteractiveFinish(s) ==
    /\ pc[s] = "i_finish"
    /\ writer_finished' = [writer_finished EXCEPT ![s] = TRUE]
    /\ pc' = [pc EXCEPT ![s] = "i_disconnect"]
    /\ UNCHANGED <<qvars, hist, hpc, i, rounds, gvars, written, writer_valid,
                   app_quit, exit_code, connects, page, ipc, codec>>

\* interactive mode: g_connected = false and return
InteractiveDisconnect(s) ==
    /\ pc[s] = "i_disconnect"
    /\ g_connected' = FALSE
    /\ pc' = [pc EXCEPT ![s] = "done"]
    /\ UNCHANGED <<qvars, hist, hpc, i, rounds, g_running, g_test_mode, g_test_result,
                   g_pings_sent, g_pongs_received, wvars, app_quit, exit_code,
                   connects, page, ipc, codec>>

\* a step of the wait_pop call a session thread is in
SessionWaitPop(s) ==
    /\ pc[s] \in {"t_wait", "i_wait"}
    /\ WaitPopStep(s)
    /\ UNCHANGED <<hpc, closedAt, resets, pushLog, pc, i, rounds, gvars, wvars,
                   app_quit, exit_code, connects, page, ipc, codec>>

\* test mode: the program started with --test
TestInit == InitCommon /\ CodecIdle /\ g_test_mode = TRUE

TestNext ==
    \/ Connect
    \/ ConnectReset
    \/ ConnectSpawn
    \/ Deliver
    \/ DeliverNotify
    \/ MainReturn
    \/ \E s \in Sessions : WriterInvalidate(s)
    \/ \E s \in Sessions : Start(s)
    \/ \E s \in Sessions : TestLoop(s)
    \/ \E s \in Sessions : SessionWaitPop(s)
    \/ \E s \in Sessions : TestVerify(s)
    \/ \E s \in Sessions : TestClose(s)
    \/ \E s \in Sessions : TestStop(s)
    \/ \E s \in Sessions : TestFinish(s)
    \/ \E s \in Sessions : TestQuit(s)

TestSpec == TestInit /\ [][TestNext]_vars

\* interactive mode: the program started without --test
InteractiveInit == InitCommon /\ CodecIdle /\ g_test_mode = FALSE

InteractiveNext ==
    \/ Connect
    \/ ConnectReset
    \/ ConnectSpawn
    \/ Deliver
    \/ DeliverNotify
    \/ \E s \in Sessions : WriterInvalidate(s)
    \/ \E s \in Sessions : Start(s)
    \/ \E s \in Sessions : InteractiveLoop(s)
    \/ \E s \in Sessions : SessionWaitPop(s)
    \/ \E s \in Sessions : InteractiveHandle(s)
    \/ \E s \in Sessions : InteractiveClose(s)
    \/ \E s \in Sessions : InteractiveFinish(s)
    \/ \E s \in Sessions : InteractiveDisconnect(s)

InteractiveSpec == InteractiveInit /\ [][InteractiveNext]_vars

\* what one inbound delivery may carry when the peer sends frames of every
\* kind: a PING, a CONTINUATION, a frame with the reserved opcode 3, a
\* PONG, a TEXT and a CLOSE
OpcodeUnits ==
    {encodeFrame(PING, <<112>>, <<165, 90, 255, 1>>),
     encodeFrame(CONTINUATION, <<1>>, <<0, 0, 0, 0>>),
     encodeFrame(3, <<>>, <<0, 0, 0, 0>>),
     encodeFrame(PONG, <<112>>, <<165, 90, 255, 1>>),
     encodeFrame(TEXT, <<104, 105>>, <<0, 0, 0, 0>>),
     encodeFrame(CLOSE, <<3, 232>>, <<0, 0, 0, 0>>)}

\* a delivery from a peer that sends frames of every kind
DeliverOpcode ==
    /\ hpc["ui"] = "idle"
    /\ exit_code = -1
    /\ Delivered < DeliverLimit
    /\ \E data \in OpcodeUnits : BinaryMessage(data)
    /\ UNCHANGED <<page, ipc, codec>>

OpcodeNext ==
    \/ Connect
    \/ ConnectReset
    \/ ConnectSpawn
    \/ DeliverOpcode
    \/ DeliverNotify
    \/ \E s \in Sessions : WriterInvalidate(s)
    \/ \E s \in Sessions : Start(s)
    \/ \E s \in Sessions : InteractiveLoop(s)
    \/ \E s \in Sessions : SessionWaitPop(s)
    \/ \E s \in Sessions : InteractiveHandle(s)
    \/ \E s \in Sessions : InteractiveClose(s)
    \/ \E s \in Sessions : InteractiveFinish(s)
    \/ \E s \in Sessions : InteractiveDisconnect(s)

\* interactive mode with a peer that sends frames of every kind
OpcodeSpec == InteractiveInit /\ [][OpcodeNext]_vars

\* the program in either mode: main sets g_test_mode from the command line
\* before anything else runs
ProgramInit == InitCommon /\ CodecIdle /\ g_test_mode \in BOOLEAN

ProgramNext ==
    \/ Connect
    \/ ConnectReset
    \/ ConnectSpawn
    \/ Deliver
    \/ DeliverNotify
    \/ MainReturn
    \/ \E s \in Sessions : WriterInvalidate(s)
    \/ \E s \in Sessions : Start(s)
    \/ \E s \in Sessions : TestLoop(s)
    \/ \E s \in Sessions : SessionWaitPop(s)
    \/ \E s \in Sessions : TestVerify(s)
    \/ \E s \in Sessions : TestClose(s)
    \/ \E s \in Sessions : TestStop(s)
    \/ \E s \in Sessions : TestFinish(s)
    \/ \E s \in Sessions : TestQuit(s)
    \/ \E s \in Sessions : InteractiveLoop(s)
    \/ \E s \in Sessions : InteractiveHandle(s)
    \/ \E s \in Sessions : InteractiveClose(s)
    \/ \E s \in Sessions : InteractiveFinish(s)
    \/ \E s \in Sessions : InteractiveDisconnect(s)

ProgramSpec == ProgramInit /\ [][ProgramNext]_vars

\* ------------------------------------------------------ the page as the peer
\* the bytes the page's reader can get from the response body of session s
RECURSIVE Concat(_)
Concat(chunks) == IF chunks = <<>> THEN <<>> ELSE Head(chunks) \o Concat(Tail(chunks))

Stream(s) == Concat(written[s])

\* connect(), the inner loop: decodeFrame on the buffer, handleFrame, slice,
\* until decodeFrame returns null; the frames it handled
RECURSIVE ProcessFrames(_)
ProcessFrames(buffer) ==
    LET frame == decodeFrame(buffer) IN
    IF frame.kind # "frame" THEN <<>>
    ELSE <<frame.frame>>
         \o ProcessFrames(SubSeq(buffer, frame.totalLength + 1, Len(buffer)))

\* the bytes that loop sliced off the buffer
RECURSIVE SlicedOff(_)
SlicedOff(buffer) ==
    LET frame == decodeFrame(buffer) IN
    IF frame.kind # "frame" THEN 0
    ELSE frame.totalLength
         + SlicedOff(SubSeq(buffer, frame.totalLength + 1, Len(buffer)))

\* mutant of handleFrame: the PONG does not carry the payload of the PING
handleFrameEmptyPong(frame, mask) ==
    IF frame.opcode = PING THEN <<encodeFrame(PONG, <<>>, mask)>>
    ELSE IF frame.opcode = CLOSE THEN <<encodeFrame(CLOSE, <<3, 232>>, mask)>>
    ELSE <<>>

\* handleFrame: what the page sends (sendBinary) for a frame; a PING is
\* answered by a PONG with its payload, a CLOSE by disconnect()'s CLOSE
handleFrame(frame, mask) ==
    IF frame.opcode = PING THEN <<encodeFrame(PONG, frame.payload, mask)>>
    ELSE IF frame.opcode = CLOSE THEN <<encodeFrame(CLOSE, <<3, 232>>, mask)>>
    ELSE <<>>

\* connect(), after fetch resolved with the response of the session:
\* connected = true, buffer emptied, reader taken
PageOpen ==
    /\ page.session = 0
    /\ connects > 0
    /\ pc[connects] \notin {"unborn", "start"}
    /\ page' = [connected |-> TRUE, buffer |-> <<>>, session |-> connects, read |-> 0]
    /\ UNCHANGED <<qvars, hist, hpc, pc, i, rounds, gvars, wvars, app_quit,
                   exit_code, connects, ipc, codec>>

\* connect(), one turn of the outer loop: reader.read() yields the next n
\* bytes, they join the buffer, the inner loop handles the complete frames
PageRead ==
    /\ page.connected
    /\ \E n \in 1..(Len(Stream(page.session)) - page.read) :
         LET value  == SubSeq(Stream(page.session), page.read + 1, page.read + n)
             newBuf == page.buffer \o value
             frames == ProcessFrames(newBuf)
         IN  /\ page' = [connected |-> \A k \in 1..Len(frames) : frames[k].opcode # CLOSE,
                         buffer    |-> SubSeq(newBuf, SlicedOff(newBuf) + 1, Len(newBuf)),
                         session   |-> page.session,
                         read      |-> page.read + n]
             /\ \E mask \in [1..Len(frames) -> Masks] :
                  ipc' = ipc \o Concat([k \in 1..Len(frames) |->
                                           handleFrame(frames[k], mask[k])])
    /\ UNCHANGED <<qvars, hist, hpc, pc, i, rounds, gvars, wvars, app_quit,
                   exit_code, connects, codec>>

\* the binary_message handler on the oldest message the page sent
PageDeliver ==
    /\ ipc # <<>>
    /\ BinaryMessage(Head(ipc))
    /\ ipc' = Tail(ipc)
    /\ UNCHANGED <<page, codec>>

\* the wait_pop call of a round whose answer arrives before PING_TIMEOUT
WaitPopInTime(s) ==
    /\ pc[s] = "t_wait"
    /\ \/ WaitPopEnter(s)
       \/ WaitPopBlock(s)
       \/ WaitPopSpurious(s)
       \/ WaitPopWoken(s)
    /\ UNCHANGED <<hpc, closedAt, resets, pushLog, pc, i, rounds, gvars, wvars,
                   app_quit, exit_code, connects, page, ipc, codec>>

\* the steps of websocket_server_thread in test mode, answers in time
ScenarioSession(s) ==
    \/ Start(s)
    \/ TestLoop(s)
    \/ WaitPopInTime(s)
    \/ TestVerify(s)
    \/ TestClose(s)
    \/ TestStop(s)
    \/ TestFinish(s)
    \/ TestQuit(s)

ScenarioNext ==
    \/ Connect
    \/ ConnectReset
    \/ ConnectSpawn
    \/ PageDeliver
    \/ DeliverNotify
    \/ MainReturn
    \/ PageOpen
    \/ PageRead
    \/ \E s \in Sessions : ScenarioSession(s)

\* every thread keeps running; the host gets the mutex for each delivery
ScenarioFairness ==
    /\ WF_vars(Connect \/ ConnectReset \/ ConnectSpawn \/ DeliverNotify \/ MainReturn)
    /\ SF_vars(PageDeliver)
    /\ WF_vars(PageOpen \/ PageRead)
    /\ \A s \in Sessions : WF_vars(ScenarioSession(s))

ScenarioSpec == TestInit /\ [][ScenarioNext]_vars /\ ScenarioFairness

\* ------------------------------------------------- claims on the sessions
\* the tag "ping-n" of round n (n < 10), byte by byte
Tag(n) == <<112, 105, 110, 103, 45, 48 + n>>

\* the bytes of an unmasked PING frame with FIN set carrying Tag(n)
PingBytes(n) == <<137, 6>> \o Tag(n)

\* the bytes of an unmasked CLOSE frame with FIN set and status 1000
CloseBytes == <<136, 2, 3, 232>>

\* round k (from 1) of session s got a PONG carrying the tag it sent
RoundGood(s, k) ==
    /\ rounds[s][k].kind = "frame"
    /\ rounds[s][k].frame.opcode = PONG
    /\ rounds[s][k].frame.payload = Tag(k - 1)

AllRoundsGood(s) ==
    /\ Len(rounds[s]) = 3
    /\ \A k \in 1..3 : RoundGood(s, k)

Closing == {"t_close", "t_stop", "t_finish", "t_quit", "done"}

\* C6: in test mode (one /connect, the page's auto-connect) the result the
\* session leaves, and the exit code main returns after the session, is 0
\* exactly when each of the 3 rounds got from wait_pop a PONG whose payload
\* is the tag "ping-i" of that round; otherwise it is 1.
C6_OutcomeIffAllRounds ==
    /\ pc[1] \in Closing =>
          g_test_result = (IF AllRoundsGood(1) THEN 0 ELSE 1)
    /\ exit_code # -1 =>
          /\ pc[1] = "done"
          /\ exit_code = (IF AllRoundsGood(1) THEN 0 ELSE 1)

C6_Witness ==
    /\ exit_code = 0
    /\ AllRoundsGood(1)
    /\ g_pongs_received = 3

\* C7: in test mode a round that fails (no frame, a frame that is no PONG,
\* a PONG with another payload) is the last round: the result is 1, the
\* session left the loop, is in no wait_pop, has sent one PING per round
\* so far and nothing after them but the CLOSE frame.
C7_FirstFailureTerminal ==
    \A s \in Sessions : \A k \in 1..Len(rounds[s]) :
        ~RoundGood(s, k) =>
            /\ k = Len(rounds[s])
            /\ g_test_result = 1
            /\ pc[s] \in Closing
            /\ wp[s] = "out"
            /\ Len(popLog[s]) <= k
            /\ written[s] \in {[j \in 1..k |-> PingBytes(j - 1)],
                               [j \in 1..k |-> PingBytes(j - 1)] \o <<CloseBytes>>}

C7_Witness ==
    /\ pc[1] = "done"
    /\ Len(rounds[1]) = 2
    /\ RoundGood(1, 1)
    /\ rounds[1][2].kind = "frame"
    /\ rounds[1][2].frame.opcode = PONG
    /\ rounds[1][2].frame.payload # Tag(1)
    /\ written[1] = <<PingBytes(0), PingBytes(1), CloseBytes>>

\* the CLOSE frames among the byte strings session s wrote
ClosesWritten(s) ==
    {k \in 1..Len(written[s]) : decodeFrame(written[s][k]).frame.opcode = CLOSE}

\* C8: a test-mode session writes no CLOSE frame before the close step and
\* exactly one from then on, the last thing written, with FIN set and
\* payload 03 E8; g_running becomes false, the writer is finished and the
\* application is told to quit only after that write, in this order.
C8_OneCloseThenStop ==
    \A s \in Sessions :
        /\ pc[s] \notin Closing \ {"t_close"} =>
              /\ ClosesWritten(s) = {}
              /\ ~writer_finished[s]
        /\ pc[s] \in {"start", "t_loop", "t_wait", "t_close"} =>
              /\ g_running
              /\ ~app_quit
        /\ pc[s] \in Closing \ {"t_close"} =>
              /\ ClosesWritten(s) = {Len(written[s])}
              /\ written[s][Len(written[s])] = CloseBytes
              /\ g_running <=> pc[s] = "t_stop"
              /\ writer_finished[s] <=> pc[s] \in {"t_quit", "done"}
              /\ app_quit <=> pc[s] = "done"

C8_Witness ==
    /\ pc[1] = "done"
    /\ g_test_result = 1
    /\ rounds[1] = <<nullopt>>
    /\ written[1] = <<PingBytes(0), CloseBytes>>
    /\ app_quit

\* what a successful test-mode session writes
SuccessWrites == <<PingBytes(0), PingBytes(1), PingBytes(2), CloseBytes>>

ScenarioDone ==
    /\ pc[1] = "done"
    /\ written[1] = SuccessWrites
    /\ g_test_result = 0
    /\ g_pings_sent = 3
    /\ g_pongs_received = 3

\* C9: with the page as the peer, answering each PING by a PONG with the
\* same payload, and each answer pushed before the timeout of its round,
\* the session writes PING ping-0, ping-1, ping-2 in this order and then
\* one CLOSE with payload 03 E8, and eventually it has ended with result
\* 0 and g_pings_sent = g_pongs_received = 3.
C9_ScriptedSuccess ==
    /\ [](IsPrefix(written[1], SuccessWrites))
    /\ <>[]ScenarioDone

C9_Witness ==
    /\ ScenarioDone
    /\ exit_code = 0
    /\ ~page.connected
    /\ page.read = Len(Stream(1))

\* the TEXT and BINARY frames of a sequence of frames
DataFrames(frames) == SelectSeq(frames, LAMBDA f : f.opcode \in {TEXT, BINARY})

\* the frames the peer reads from what session s wrote
WrittenFrames(s) == [k \in 1..Len(written[s]) |-> decodeFrame(written[s][k]).frame]

\* the TEXT or BINARY frame session s popped and has not handled yet
InHand(s) ==
    IF /\ pc[s] = "i_wait"
       /\ wp[s] = "ret"
       /\ response[s].kind = "frame"
       /\ response[s].frame.opcode \in {TEXT, BINARY}
    THEN <<response[s].frame>>
    ELSE <<>>

\* C10: in interactive mode the TEXT and BINARY frames a session wrote are,
\* in the same order and with the same fin, opcode and payload, the TEXT
\* and BINARY frames it popped, but for the one it popped last and is
\* about to echo; once the loop has ended the two sequences are equal.
C10_InteractiveEcho ==
    \A s \in Sessions :
        DataFrames(WrittenFrames(s)) \o InHand(s) = DataFrames(Frames(popLog[s]))

C10_Witness ==
    \E s \in Sessions :
        /\ pc[s] = "done"
        /\ Len(popLog[s]) = 2
        /\ DataFrames(WrittenFrames(s))
             = <<WsFrame(TRUE, TEXT, <<104, 105>>), WsFrame(FALSE, BINARY, <<0>>)>>

Leaving == {"i_finish", "i_disconnect", "done"}

\* C11: an interactive session writes no CLOSE frame while in the loop and
\* exactly one once it has left it, the last thing written, with payload
\* 03 E8; the writer is finished only after that write and g_connected is
\* set to false by the last step.  A CLOSE frame a session popped is its
\* last pop: what is pending behind it is never popped, so never echoed.
C11_InteractiveCloseOnce ==
    /\ [](\A s \in Sessions :
            /\ pc[s] \notin Leaving =>
                  /\ ClosesWritten(s) = {}
                  /\ ~writer_finished[s]
            /\ pc[s] \in Leaving =>
                  /\ ClosesWritten(s) = {Len(written[s])}
                  /\ written[s][Len(written[s])] = CloseBytes
                  /\ writer_finished[s] <=> pc[s] # "i_finish"
            /\ \A k \in 1..Len(popLog[s]) :
                  popLog[s][k].frame.opcode = CLOSE =>
                      /\ k = Len(popLog[s])
                      /\ pc[s] \in {"i_wait", "i_close"} \cup Leaving
                      /\ wp[s] \in {"ret", "out"})
    /\ [][\A s \in Sessions :
            pc[s] = "i_disconnect" /\ pc'[s] = "done" => ~g_connected']_vars

C11_Witness ==
    \E s \in Sessions :
        /\ pc[s] = "done"
        /\ Len(popLog[s]) = 1
        /\ popLog[s][1].frame.opcode = CLOSE
        /\ m_queue # <<>>
        /\ m_queue[1].opcode = TEXT
        /\ written[s] = <<CloseBytes>>
        /\ ~g_connected

\* --------------------------------------------------------------- CodecSpec
\* a payload of n bytes
Payload(n) == [k \in 1..n |-> (7 * k) % 256]

\* the payload lengths of the frames: both sides of each length tier
PayloadLengths == {0, 1, 125, 126, 65535, 65536}

\* the frames given to the codec in every form: each opcode with each fin
\* and each of the lengths up to 126
CodecFrames ==
    {WsFrame(fin, opcode, Payload(n)) :
        fin \in BOOLEAN, opcode \in {TEXT, BINARY, CLOSE, PING, PONG},
        n \in {m \in PayloadLengths : m <= 126}}

\* the long frames, each given to the codec in one form
LongInputs ==
    {<<WsFrame(TRUE, TEXT, Payload(65535)), <<>>>>,
     <<WsFrame(FALSE, PING, Payload(65535)), <<165, 90, 255, 1>>>>,
     <<WsFrame(FALSE, BINARY, Payload(65536)), <<>>>>,
     <<WsFrame(TRUE, PONG, Payload(65536)), <<165, 90, 255, 1>>>>}

\* the frames packed behind another frame in one buffer
PackedFrames == {WsFrame(TRUE, TEXT, <<104, 105>>), WsFrame(FALSE, BINARY, Payload(126))}

\* how a frame is put on the wire: by WsFrame::encode (no masking key), or
\* masked with a key as a client does
Forms == {<<>>} \cup Masks

\* the masked form of a frame: encodeFrame of the page, with the FIN bit
\* cleared for a frame that is not final
MaskedForm(frame, mask) ==
    LET bytes == encodeFrame(frame.opcode, frame.payload, mask) IN
    IF frame.fin THEN bytes ELSE <<bytes[1] - 128>> \o SubSeq(bytes, 2, Len(bytes))

Wire(frame, form) == IF form = <<>> THEN encode(frame) ELSE MaskedForm(frame, form)

\* buffers no longer than this are cut at every position
CutAllBelow == 150
\* header bytes at most: 2, 8 of extended length, 4 of masking key
MaxHeader == 14

\* where a buffer is cut to make a partial delivery
CutPoints(bytes) ==
    IF Len(bytes) <= CutAllBelow THEN 0..(Len(bytes) - 1)
    ELSE 0..(MaxHeader + 1) \cup {Len(bytes) - 2, Len(bytes) - 1}

\* buffers whose 64-bit length field declares more than they hold: the
\* length bytes, masked or not, followed by three bytes
HostileLengths ==
    {<<0, 0, 0, 0, 0, 1, 0, 0>>, <<0, 0, 0, 1, 0, 0, 0, 0>>,
     <<128, 0, 0, 0, 0, 0, 0, 0>>, <<255, 255, 255, 255, 255, 0, 0, 0>>,
     <<255, 255, 255, 255, 255, 255, 255, 240>>,
     <<255, 255, 255, 255, 255, 255, 255, 246>>,
     <<255, 255, 255, 255, 255, 255, 255, 255>>}

HostileBuffers ==
    {<<130, 127>> \o len \o <<1, 2, 3>> : len \in HostileLengths}
    \cup {<<130, 255>> \o len \o <<165, 90, 255, 1>> \o <<1, 2, 3>> : len \in HostileLengths}

CodecInput(stage, frame, form, input, bytes) ==
    [stage |-> stage, frame |-> frame, form |-> form, input |-> input,
     second |-> nullopt, form2 |-> <<>>, bytes |-> bytes, results |-> <<>>, at |-> 0,
     status |-> "none"]

\* the inputs: a frame and the form to put it on the wire in, or a buffer
\* with a hostile length field
CodecInit ==
    /\ InitCommon
    /\ g_test_mode = FALSE
    /\ codec \in {CodecInput("frame", frame, form, "whole", <<>>) :
                     frame \in CodecFrames, form \in Forms}
                 \cup {CodecInput("frame", in[1], in[2], "whole", <<>>) : in \in LongInputs}
                 \cup {CodecInput("bytes", nullopt, <<>>, "hostile", bytes) :
                          bytes \in HostileBuffers}

codecrest == <<qvars, hist, hpc, pc, i, rounds, gvars, wvars, app_quit, exit_code,
               connects, page, ipc>>

\* the frame is put on the wire
CodecEncode ==
    /\ codec.stage = "frame"
    /\ codec' = [codec EXCEPT !.stage = "bytes", !.bytes = Wire(codec.frame, codec.form)]
    /\ UNCHANGED codecrest

\* only a proper prefix of the bytes is in the buffer
CodecCut ==
    /\ codec.stage = "bytes"
    /\ codec.input = "whole"
    /\ \E n \in CutPoints(codec.bytes) :
          codec' = [codec EXCEPT !.input = "cut", !.bytes = SubSeq(codec.bytes, 1, n)]
    /\ UNCHANGED codecrest

\* a second frame follows in the same buffer
CodecPack ==
    /\ codec.stage = "bytes"
    /\ codec.input = "whole"
    /\ Len(codec.bytes) <= CutAllBelow
    /\ \E frame \in PackedFrames, form \in Forms :
          codec' = [codec EXCEPT !.input = "packed", !.second = frame, !.form2 = form,
                                 !.bytes = codec.bytes \o Wire(frame, form)]
    /\ UNCHANGED codecrest

\* mutant of CodecDecode: decode reads past size, to the end of the frame
CodecDecodePastSize ==
    /\ codec.stage \in {"bytes", "decoded"}
    /\ codec.results = <<>>
    /\ codec.input # "hostile"
    /\ codec' = [codec EXCEPT !.stage = "decoded",
                              !.results = <<decode(Wire(codec.frame, codec.form))>>]
    /\ UNCHANGED codecrest

\* decode(data + at, size - at): first on the buffer, then on what is left
\* behind the bytes each decoded frame consumed
CodecDecode ==
    /\ codec.stage \in {"bytes", "decoded"}
    /\ IF codec.results = <<>> THEN TRUE
       ELSE codec.results[Len(codec.results)].kind = "frame"
    /\ LET result == decode(SubSeq(codec.bytes, codec.at + 1, Len(codec.bytes))) IN
       codec' = [codec EXCEPT !.stage = "decoded",
                              !.results = Append(@, result),
                              !.at = IF result.kind = "frame" THEN @ + result.consumed
                                     ELSE @]
    /\ UNCHANGED codecrest

\* how the binary_message handler ends on data: it returns status::handled,
\* or the exception of decode leaves it (the handler catches nothing)
HandlerStatus(data) ==
    IF decode(data).kind = "length_error" THEN "length_error" ELSE "handled"

\* the buffer is one inbound delivery: the binary_message handler runs on it
CodecDeliver ==
    /\ codec.stage = "bytes"
    /\ BinaryMessage(codec.bytes)
    /\ codec' = [codec EXCEPT !.status = HandlerStatus(codec.bytes),
                              !.stage = IF HandlerStatus(codec.bytes) = "handled"
                                        THEN "delivered" ELSE "thrown"]
    /\ UNCHANGED <<page, ipc>>

CodecNotify ==
    /\ DeliverNotify
    /\ codec.stage = "delivered"

CodecNext ==
    \/ CodecEncode
    \/ CodecCut
    \/ CodecPack
    \/ CodecDecode
    \/ CodecDeliver
    \/ CodecNotify

CodecSpec == CodecInit /\ [][CodecNext]_vars

\* ---------------------------------------- claims on the codec and the handler
\* the frames of a buffer: decode looped over what is left of it until it
\* yields no frame
RECURSIVE FramesIn(_)
FramesIn(bytes) ==
    LET result == decode(bytes) IN
    IF result.kind # "frame" THEN <<>>
    ELSE <<result.frame>> \o FramesIn(SubSeq(bytes, result.consumed + 1, Len(bytes)))

\* C12: after the binary_message handler ran on a delivery, every complete
\* frame of the delivery is in the queue, in wire order.
C12_DeliveryPushesAllFrames ==
    codec.stage = "delivered" => m_queue = FramesIn(codec.bytes)

C14_PrefixIsInsufficient ==
    codec.stage = "decoded" /\ codec.input = "cut" => codec.results = <<nullopt>>

C14_Witness ==
    /\ codec.stage = "decoded"
    /\ codec.input = "cut"
    /\ codec.form # <<>>
    /\ Len(codec.frame.payload) = 126
    /\ Len(codec.bytes) = 126 + 8 - 1
    /\ codec.results = <<nullopt>>

\* C15: decode on a buffer whose 64-bit length field declares more bytes
\* than the buffer holds yields nullopt, whatever the value of the field.
C15_HostileLengthIsInsufficient ==
    codec.stage = "decoded" /\ codec.input = "hostile" => codec.results = <<nullopt>>

\* C16: of two frames packed in one buffer decode yields the first with
\* consumed the length of its bytes, then from there the second with
\* consumed the length of its bytes, which is the end of the buffer, and
\* then nullopt on the empty rest.
C16_PackedFrames ==
    codec.stage = "decoded" /\ codec.input = "packed" =>
        /\ codec.results[1] =
              [kind |-> "frame", frame |-> codec.frame,
               consumed |-> Len(Wire(codec.frame, codec.form))]
        /\ Len(codec.results) >= 2 =>
              /\ codec.results[2] =
                    [kind |-> "frame", frame |-> codec.second,
                     consumed |-> Len(Wire(codec.second, codec.form2))]
              /\ codec.results[1].consumed + codec.results[2].consumed = Len(codec.bytes)
              /\ codec.at = Len(codec.bytes)
        /\ Len(codec.results) >= 3 => codec.results[3] = nullopt

C16_Witness ==
    /\ codec.stage = "decoded"
    /\ codec.input = "packed"
    /\ Len(codec.results) = 3
    /\ codec.form = <<>>
    /\ codec.form2 # <<>>
    /\ Len(codec.frame.payload) = 125
    /\ codec.results[2].frame = WsFrame(FALSE, BINARY, Payload(126))

\* the header encode writes for a frame, tier by tier
TierHeader(frame) ==
    LET n     == Len(frame.payload)
        byte0 == (IF frame.fin THEN 128 ELSE 0) + frame.opcode
    IN  IF n <= 125 THEN <<byte0, n>>
        ELSE IF n <= 65535 THEN <<byte0, 126, n \div 256, n % 256>>
        ELSE <<byte0, 127, 0, 0, 0, 0, (n \div 16777216) % 256, (n \div 65536) % 256,
               (n \div 256) % 256, n % 256>>

\* C17: the bytes encode writes are the header of the frame's length tier,
\* 2, 4 or 10 bytes with the MASK bit clear, and then the payload unchanged.
C17_LengthTiers ==
    codec.stage = "bytes" /\ codec.input = "whole" /\ codec.form = <<>> =>
        /\ codec.bytes = TierHeader(codec.frame) \o codec.frame.payload
        /\ codec.bytes[2] < 128
        /\ Len(TierHeader(codec.frame))
              = (IF Len(codec.frame.payload) <= 125 THEN 2
                 ELSE IF Len(codec.frame.payload) <= 65535 THEN 4 ELSE 10)

C17_Witness ==
    /\ codec.stage = "bytes"
    /\ codec.input = "whole"
    /\ codec.form = <<>>
    /\ Len(codec.frame.payload) = 126
    /\ SubSeq(codec.bytes, 1, 4) = <<2, 126, 0, 126>>
    /\ Len(codec.bytes) = 130

\* C22: a delivery from which decode yields no frame is dropped silently:
\* the binary_message handler returns status::handled, nothing is pushed,
\* and the queue, its closed flag, the flags and counters of the sessions
\* and the result are as before.
C22_UndecodableDropped ==
    [][/\ codec.stage = "bytes"
       /\ codec'.stage \in {"delivered", "thrown"}
       /\ decode(codec.bytes).kind # "frame"
       => /\ codec'.status = "handled"
          /\ UNCHANGED codecrest]_vars

\* ------------------------------------------ claims on the life of a session
\* the session threads that were started and have not returned
ActiveSessions == {s \in Sessions : pc[s] \notin {"unborn", "done"}}

\* C18: at most one session thread is active at a time, and when /connect
\* has run reset() every session thread of an earlier /connect has returned.
C18_SessionsSerialized ==
    /\ Cardinality(ActiveSessions) <= 1
    /\ hpc["ui"] = "c_spawn" => \A s \in 1..(connects - 1) : pc[s] = "done"

\* the timeout of the wait_pop call a session thread is blocked in elapses
SessionTimeout(s) ==
    /\ pc[s] \in {"t_wait", "i_wait"}
    /\ WaitPopTimeout(s)
    /\ UNCHANGED <<hpc, closedAt, resets, pushLog, pc, i, rounds, gvars, wvars,
                   app_quit, exit_code, connects, page, ipc, codec>>

\* the steps of websocket_server_thread in test mode
TestSession(s) ==
    \/ Start(s)
    \/ TestLoop(s)
    \/ SessionWaitPop(s)
    \/ TestVerify(s)
    \/ TestClose(s)
    \/ TestStop(s)
    \/ TestFinish(s)
    \/ TestQuit(s)

\* a session thread keeps running, and a wait_pop it is blocked in does
\* not outlast its timeout, however often it is woken before
TestFairness ==
    \A s \in Sessions : WF_vars(TestSession(s)) /\ SF_vars(SessionTimeout(s))

TestFairSpec == TestInit /\ [][TestNext]_vars /\ TestFairness

\* the PING frames among the byte strings session s wrote
PingsWritten(s) ==
    {k \in 1..Len(written[s]) : decodeFrame(written[s][k]).frame.opcode = PING}

\* the wait_pop calls session s made in its test loop
WaitPopCalls(s) == Len(rounds[s]) + (IF pc[s] = "t_wait" THEN 1 ELSE 0)

\* C19: whatever the peer delivers, a test-mode session writes at most 3
\* PING frames, calls wait_pop at most 3 times, and once started it
\* eventually has written CLOSE and returned.
C19_ScriptedTerminates ==
    /\ [](\A s \in Sessions :
            /\ Cardinality(PingsWritten(s)) <= 3
            /\ WaitPopCalls(s) <= 3
            /\ WaitPopCalls(s) = Cardinality(PingsWritten(s)))
    /\ \A s \in Sessions :
          pc[s] = "start" ~> (pc[s] = "done" /\ ClosesWritten(s) = {Len(written[s])})

C19_Witness ==
    /\ pc[1] = "done"
    /\ Cardinality(PingsWritten(1)) = 3
    /\ Len(rounds[1]) = 3
    /\ rounds[1][3] = nullopt
    /\ written[1][4] = CloseBytes

\* the steps of websocket_server_thread in interactive mode
InteractiveSession(s) ==
    \/ Start(s)
    \/ InteractiveLoop(s)
    \/ SessionWaitPop(s)
    \/ InteractiveHandle(s)
    \/ InteractiveClose(s)
    \/ InteractiveFinish(s)
    \/ InteractiveDisconnect(s)

\* a session thread keeps running and gets m_mutex when it is free again
\* and again; a wait_pop it is blocked in does not outlast its timeout
InteractiveFairness ==
    \A s \in Sessions : SF_vars(InteractiveSession(s)) /\ SF_vars(SessionTimeout(s))

InteractiveFairSpec == InteractiveInit /\ [][InteractiveNext]_vars /\ InteractiveFairness

\* the loop of session s is to end: g_running is false or its writer invalid
Cancelled(s) == ~g_running \/ ~writer_valid[s]

\* C20: in interactive mode, once g_running is false or the writer is
\* invalid, the loop head starts no further wait_pop; the wait_pop in
\* progress returns, at most the one frame it returned is handled (one
\* write at most), and the session eventually has written CLOSE and
\* returned: it is never blocked for ever.
C20_CooperativeCancel ==
    /\ [][\A s \in Sessions :
            /\ ~writer_valid[s] => ~writer_valid'[s]
            /\ Cancelled(s) /\ pc[s] = "i_loop" => pc'[s] \in {"i_loop", "i_close"}
            /\ pc[s] = "i_wait" /\ pc'[s] # "i_wait" =>
                  /\ pc'[s] \in {"i_loop", "i_close"}
                  /\ Len(written'[s]) <= Len(written[s]) + 1]_vars
    /\ \A s \in Sessions :
          (pc[s] \in {"i_loop", "i_wait"} /\ Cancelled(s))
             ~> (pc[s] = "done" /\ ClosesWritten(s) = {Len(written[s])})

C20_Witness ==
    \E s \in Sessions :
        /\ pc[s] = "done"
        /\ ~writer_valid[s]
        /\ Len(popLog[s]) = 1
        /\ written[s] = <<<<129, 2, 104, 105>>, CloseBytes>>
        /\ m_queue # <<>>

\* ----------------------------------------- claims on the end of a session
\* the loop heads of websocket_server_thread
LoopHead == {"t_loop", "i_loop"}

\* the positions of a session thread behind its loop
AfterLoop == {"t_close", "t_stop", "t_finish", "t_quit",
              "i_close", "i_finish", "i_disconnect", "done"}

\* C21: a session whose writer is invalid at the head of its loop goes to
\* the CLOSE step, with no PING or echo written and no wait_pop started;
\* behind the loop it never comes back to it, starts no wait_pop and
\* writes nothing but the CLOSE frame.  In test mode a session that left
\* the loop before its first PING leaves the result 1, and main returns 1.
C21_TransportFailureEndsSession ==
    /\ [][\A s \in Sessions :
            /\ pc[s] \in LoopHead /\ ~writer_valid[s] =>
                  /\ pc'[s] \in {pc[s], IF pc[s] = "t_loop" THEN "t_close" ELSE "i_close"}
                  /\ written'[s] = written[s]
                  /\ wp'[s] = "out"
                  /\ popLog'[s] = popLog[s]
                  /\ ~writer_valid'[s]
            /\ pc[s] \in AfterLoop =>
                  /\ pc'[s] \in AfterLoop
                  /\ written'[s] \in {written[s], Append(written[s], CloseBytes)}
                  /\ wp'[s] = "out"
                  /\ popLog'[s] = popLog[s]]_vars
    /\ [](g_test_mode /\ pc[1] \in Closing /\ PingsWritten(1) = {} =>
            /\ ~writer_valid[1]
            /\ g_test_result = 1
            /\ exit_code \in {-1, 1})

C21_Witness ==
    /\ g_test_mode
    /\ exit_code = 1
    /\ ~writer_valid[1]
    /\ rounds[1] = <<>>
    /\ written[1] = <<CloseBytes>>

\* session s takes the result of its wait_pop in hand: the step of the loop
\* body
Handles(s) == pc[s] = "i_wait" /\ wp[s] = "ret" /\ wp'[s] = "out"

\* C23: in interactive mode a session in its loop writes only when it
\* handles a TEXT or BINARY frame; handling a PONG adds one to
\* g_pongs_received and writes nothing; handling a PING, a CONTINUATION
\* or a frame of an unknown opcode writes nothing and changes no counter;
\* each of them leads back to the loop head.  The loop is left only on a
\* CLOSE frame, or at its head when g_running is false or the writer is
\* invalid.
C23_OnlyDataFramesReply ==
    [][\A s \in Sessions :
         /\ Handles(s) /\ response[s].kind = "frame" =>
               LET opcode == response[s].frame.opcode IN
               /\ opcode = PONG =>
                     /\ g_pongs_received' = g_pongs_received + 1
                     /\ UNCHANGED <<written, g_pings_sent>>
                     /\ pc'[s] = "i_loop"
               /\ opcode \notin {TEXT, BINARY, PONG, CLOSE} =>
                     /\ UNCHANGED <<written, g_pings_sent, g_pongs_received>>
                     /\ pc'[s] = "i_loop"
               /\ opcode \in {TEXT, BINARY} =>
                     /\ Len(written'[s]) = Len(written[s]) + 1
                     /\ UNCHANGED <<g_pings_sent, g_pongs_received>>
                     /\ pc'[s] = "i_loop"
         /\ pc[s] \in {"i_loop", "i_wait"} /\ written'[s] # written[s] =>
               /\ Handles(s)
               /\ response[s].kind = "frame"
               /\ response[s].frame.opcode \in {TEXT, BINARY}
         /\ pc[s] \in {"i_loop", "i_wait"} /\ pc'[s] \notin {"i_loop", "i_wait"} =>
               /\ pc'[s] = "i_close"
               /\ \/ /\ Handles(s)
                     /\ response[s].kind = "frame"
                     /\ response[s].frame.opcode = CLOSE
                  \/ /\ pc[s] = "i_loop"
                     /\ ~g_running \/ ~writer_valid[s]]_vars

C23_Witness ==
    \E s \in Sessions :
        /\ pc[s] = "i_loop"
        /\ writer_valid[s]
        /\ Frames(popLog[s]) = <<WsFrame(TRUE, PONG, <<112>>), WsFrame(TRUE, 3, <<>>)>>
        /\ g_pongs_received = 1
        /\ written[s] = <<>>

\* the rounds of session s that got the PONG of their PING
GoodRounds(s) == {k \in 1..Len(rounds[s]) : RoundGood(s, k)}

\* C24: in test mode 0 <= g_pongs_received <= g_pings_sent <= 3 and
\* g_pings_sent - g_pongs_received <= 1; the counters are the PING frames
\* the session wrote and the rounds that got their PONG; the k-th PING
\* carries "ping-(k-1)" and is written only after each earlier round
\* popped a PONG with the payload of its PING, so that at most one PING
\* is without its answer.
C24_Lockstep ==
    /\ 0 <= g_pongs_received
    /\ g_pongs_received <= g_pings_sent
    /\ g_pings_sent <= 3
    /\ g_pings_sent - g_pongs_received <= 1
    /\ g_pings_sent = Cardinality(PingsWritten(1))
    /\ g_pongs_received = Cardinality(GoodRounds(1))
    /\ \A k \in PingsWritten(1) :
          /\ written[1][k] = PingBytes(k - 1)
          /\ Len(rounds[1]) >= k - 1
          /\ \A j \in 1..(k - 1) : RoundGood(1, j)
          /\ \A j \in 1..(k - 1) : popLog[1][j].frame = WsFrame(TRUE, PONG, Tag(j - 1))

C24_Witness ==
    /\ pc[1] = "t_wait"
    /\ g_pings_sent = 3
    /\ g_pongs_received = 2
    /\ written[1] = <<PingBytes(0), PingBytes(1), PingBytes(2)>>
    /\ Len(popLog[1]) = 2

\* C25: in both modes a CLOSE frame a session wrote is the last thing it
\* wrote: after it the session writes nothing, no PING, no echo and no
\* second CLOSE; and writer.finish() is called only when the CLOSE frame
\* has been written.
C25_CloseIsLast ==
    /\ [](\A s \in Sessions :
            /\ ClosesWritten(s) \subseteq {Len(written[s])}
            /\ writer_finished[s] => ClosesWritten(s) = {Len(written[s])})
    /\ [][\A s \in Sessions :
            /\ ClosesWritten(s) # {} => written'[s] = written[s]
            /\ writer_finished[s] => writer_finished'[s]]_vars

C25_Witness ==
    \E s \in Sessions :
        /\ ~g_test_mode
        /\ pc[s] = "done"
        /\ writer_finished[s]
        /\ Len(written[s]) = 3
        /\ ClosesWritten(s) = {3}

=============================================================================
